---- MODULE Spec2Model ----
(***************************************************************************)
(* Model of esg-parsers: the parallel run coordinator (Scraper.run_parsers *)
(* with the partial result writer), the Vedomosti adapter with its retry    *)
(* policy, the paging loops of the Forbes and Kommersant adapters, and the  *)
(* merger (Scraper.merge_results).                                          *)
(***************************************************************************)
EXTENDS Bags, FiniteSets, Integers, Sequences, TLC

(* ---------------------------------------------------------------- bounds *)
MaxRequests == 2
MaxArticles == 1
MaxPages == 3
MaxFound == 2
MaxFiles == 2
MaxMerges == 2
MaxRows == 2
MaxLen == 3

(* ------------------------------------------------------ program constants *)
DefaultMaxWorkers == 3
max_retries == 5
limit == 20
offset_limit == 8
TeapotStatus == 418
OkStatus == 200
MinFileSize == 10
HeaderBytes == 60

None == "None"

(* self.parsers: the registry, in insertion order *)
parsers == <<"Forbes", "Vedomosti", "Kommersant">>

(* ------------------------------------------------------------------ data *)
(* datetime(year, month, day) *)
Date(y, m, d) == [year |-> y, month |-> m, day |-> d]

(* CompanyDateRange as read_news_requests builds it from a catalog row      *)
(* (company, year suffix): int('20' + year), Jan 1 to Dec 31.               *)
CompanyDateRange(company, suffix) ==
  [company |-> company,
   start_date |-> Date(2000 + suffix, 1, 1),
   end_date |-> Date(2000 + suffix, 12, 31)]

(* the catalog rows the request lists are drawn from: (company, year        *)
(* suffix), company names as sequences of characters                        *)
CatalogRows ==
  { <<<<"a", " ", "b">>, 23>>, <<<<"a", "_", "b">>, 23>>,
    <<<<"a", ":", "b">>, 23>>, <<<<"a", "/", "b">>, 23>>,
    <<<<"a", " ", "b">>, 24>> }

WorkItems == { CompanyDateRange(row[1], row[2]) : row \in CatalogRows }

RequestLists == UNION { [1..n -> WorkItems] : n \in 0..MaxRequests }

(* ------------------------------------------------- the adapters' builders *)
(* positional parameters of each adapter's __init__ besides self *)
InitParams == [Forbes |-> 3, Vedomosti |-> 1, Kommersant |-> 1]

(* the base class of each adapter, and the parameters of its __init__ *)
BaseOf == [Forbes |-> "BaseParser", Vedomosti |-> "SuperBaseParser",
           Kommersant |-> "BaseParser"]
BaseInitParams == [BaseParser |-> 3, SuperBaseParser |-> 1]

(* arguments each adapter's __init__ hands to super().__init__ *)
SuperArgs == [Forbes |-> 3, Vedomosti |-> 1, Kommersant |-> 1]

(* parser_class(company_range): one positional argument; a TypeError when   *)
(* the adapter's or its base's __init__ wants another number of arguments.  *)
ConstructorRaises(parser_name) ==
  \/ InitParams[parser_name] # 1
  \/ SuperArgs[parser_name] # BaseInitParams[BaseOf[parser_name]]

(* faulty variant: one adapter class carries another's name *)
AdapterName_CopyPaste ==
  [Forbes |-> "Forbes", Vedomosti |-> "Forbes", Kommersant |-> "Kommersant"]

(* self.name as each adapter's __init__ assigns it, by registry key *)
AdapterName ==
  [Forbes |-> "Forbes", Vedomosti |-> "Vedomosti", Kommersant |-> "Kommersant"]

(* models.NewsArticle; texts are sequences of characters *)
NewsArticle(url, title, body, date, parser) ==
  [url |-> url, title |-> title, body |-> body, date |-> date, parser |-> parser]

(* the list parser.parse() hands to _run_parser when it collected n         *)
(* articles for company_range                                               *)
ReturnedArticles(parser_name, company_range, n) ==
  [k \in 1..n |->
     NewsArticle(<<"u", ToString(k)>>, <<"t", ToString(k)>>, <<"b", "LF", "c">>,
                 company_range.start_date, AdapterName[parser_name])]

(* a value handed to clean_text: a str, by its characters, or None; NBSP   *)
(* stands for the non-breaking space U+00A0                                 *)
Str(chars) == [is_none |-> FALSE, chars |-> chars]
Absent == [is_none |-> TRUE, chars |-> <<>>]

Chars == {"a", " ", "NBSP"}
Texts == { Str(chars) : chars \in UNION { [1..n -> Chars] : n \in 0..MaxLen } }
            \cup {Absent}

(* faulty variant: the text is handed back as it came *)
clean_text_Same(txt) == txt.chars

(* clean_text of both base classes: "" for None and for the empty string,  *)
(* otherwise text.replace('\xa0', ' ')                                      *)
clean_text(txt) ==
  IF txt.is_none \/ txt.chars = <<>> THEN <<>>
  ELSE [k \in DOMAIN txt.chars |->
          IF txt.chars[k] = "NBSP" THEN " " ELSE txt.chars[k]]

Raised == [raised |-> TRUE, articles |-> 0]
Returned(n) == [raised |-> FALSE, articles |-> n]

(* Scraper._run_parser: what the future of one task can hold *)
RunParserOutcomes(parser_name) ==
  IF parser_name \notin { parsers[j] : j \in DOMAIN parsers }
  THEN { Returned(0) }
  ELSE IF ConstructorRaises(parser_name)
  THEN { Raised }
  ELSE { Returned(n) : n \in 0..MaxArticles }

(* ----------------------------------------------------------- the writer *)
Pad2(n) == IF n < 10 THEN <<"0", ToString(n)>> ELSE <<ToString(n)>>

(* Scraper._format_date on a datetime: strftime('%Y-%m-%d %H:%M:%S') *)
FormatDate(date_obj) ==
  <<ToString(date_obj.year), "-">> \o Pad2(date_obj.month) \o <<"-">>
    \o Pad2(date_obj.day) \o <<" ", "0", "0", ":", "0", "0", ":", "0", "0">>

(* filename.replace(':', '_').replace(' ', '_') *)
CleanFilename(filename) ==
  [k \in DOMAIN filename |->
     IF filename[k] \in {":", " "} THEN "_" ELSE filename[k]]

(* the file name of one task's Partial Result File *)
Filename(company_range, parser_name) ==
  CleanFilename(company_range.company \o <<"_", parser_name, "_">>
                \o FormatDate(company_range.start_date) \o <<"_">>
                \o FormatDate(company_range.end_date) \o <<".csv">>)

(* os.path.join(self.temp_dir, filename) *)
PathJoin(dir, filename) == <<dir, "/">> \o filename

(* open(filepath, "w") raises when a directory of the path does not exist:  *)
(* only temp_dir was created, so a separator inside the file name fails.    *)
OpenFails(filename) == \E k \in DOMAIN filename : filename[k] = "/"

(* faulty variant: every write creates a run directory *)
NeedsTempDir_Always(dir) == TRUE

(* the lazy check of _save_temp_results: `if not self.temp_dir` *)
NeedsTempDir(dir) == dir = None

(* datetime.now() at the creation of the run directory: parse_run_<stamp> *)
Timestamps == {"parse_run_1", "parse_run_2"}

(* ------------------------------------------------------------------ state *)
VARIABLES
  requests,        \* the request list handed to run_parsers
  max_workers,     \* Scraper.max_workers
  temp_dir,        \* Scraper.temp_dir
  pc,              \* the main thread: "submit", "as_completed", "returned"
  future_to_task,  \* the futures submitted so far, each with its (request, adapter)
  queue,           \* the executor's work queue
  worker,          \* the pool's threads: the future each one runs, 0 when idle
  fstate,          \* each future: "new", "pending", "running", "finished"
  fresult,         \* each finished future's outcome
  processed,       \* the futures process_parser_result has handled
  progress,        \* the progress bar's counter
  temp_files,      \* the list run_parsers returns
  files,           \* the file system under temp_dir: path, writing task, rows
  execs,           \* history: how often each future's task body was started
  save_calls,      \* history: calls of _save_temp_results per future
  dir_creates,     \* history: assignments of temp_dir
  written,         \* history: the (future, path) of every file opened for writing
  vpc,             \* VedomostiParser: "unbuilt", "loop", "retry", "got", "done"
  current_offset,  \* VedomostiParser.current_offset
  found_news_on_page,
  news_list,       \* parse(): the articles collected so far
  attempt,         \* _make_request_with_retry: the loop variable
  calls,           \* history: requests.get calls of the current request
  outcomes,        \* history: what each of those calls met
  ret,             \* what _make_request_with_retry handed to parse()
  requested,       \* history: the offsets/pages the adapter has asked for
  results,         \* history: how each of those requests ended
  adapter,         \* the adapter object under observation, None without one
  current_page,    \* KommersantParser.current_page
  news_urls,       \* search_news(): the links collected so far
  source_dates,    \* the source: what its items' published_at can hold
  source_shapes,   \* the source: the shapes its items can have
  next_url,        \* BaseParser.parse: the position of the loop over news_urls
  fetched,         \* history: the URLs parse_article was called on, and how it ended
  merge_pc,        \* merge_results: "idle", "start", "files", "returned", "raised"
  merge_input,     \* the files at the paths handed to merge_results
  next_file,       \* the position of the loop over those paths
  merged,          \* the lines of merged_results.csv
  total_articles,  \* merge_results: the total it reports
  kept,            \* history: the rows written from each file handled
  merge_calls,     \* history: the calls of merge_results so far
  previous,        \* history: the merged file as the call before left it
  read_pc,         \* read_news_requests: "idle", "rows", "returned"
  catalog,         \* the rows csv.reader reads from request.csv
  next_row,        \* the position of the loop over those rows
  read_results,    \* read_news_requests: its list `results`
  text_arg,        \* the argument of clean_text
  cleaned,         \* history: what each call of clean_text returned
  pace,            \* history: what came last on the search endpoint: "none",
                   \* "request" (a request, no pause since) or "slept"
  user_agent,      \* _make_request_with_retry: headers["User-Agent"]
  ua_choices       \* history: the random.choice calls made for the request

cvars == <<requests, max_workers, temp_dir, pc, future_to_task, queue, worker,
           fstate, fresult, processed, progress, temp_files, files, execs,
           save_calls, dir_creates, written>>

vvars == <<vpc, current_offset, found_news_on_page, news_list, attempt, calls,
           outcomes, ret, requested, results>>

avars == <<adapter, current_page, news_urls, source_dates, source_shapes,
           next_url, fetched>>

mvars == <<merge_pc, merge_input, next_file, merged, total_articles, kept,
           merge_calls, previous>>

uvars == <<read_pc, catalog, next_row, read_results, text_arg, cleaned>>

pvars == <<pace, user_agent, ua_choices>>

vars == <<cvars, vvars, avars, mvars, uvars, pvars>>

(* total_tasks = len(requests) * len(self.parsers) *)
NumTasks == Len(requests) * Len(parsers)

(* faulty variant: the inner loop never leaves the first adapter *)
NextPair_FirstAdapter(k) == <<(k \div Len(parsers)) + 1, 1>>

(* the pair the nested submit loops reach after k submissions *)
NextPair(k) == <<(k \div Len(parsers)) + 1, (k % Len(parsers)) + 1>>

TaskRange(t) == requests[future_to_task[t][1]]
TaskParser(t) == parsers[future_to_task[t][2]]

(* a fresh Scraper(max_workers=workers) about to run_parsers(reqs) *)
ScraperInit(reqs, workers) ==
  /\ requests = reqs
  /\ max_workers = workers
  /\ temp_dir = None
  /\ pc = IF Len(requests) = 0 THEN "as_completed" ELSE "submit"
  /\ future_to_task = <<>>
  /\ queue = <<>>
  /\ worker = [w \in 1..max_workers |-> 0]
  /\ fstate = [t \in 1..NumTasks |-> "new"]
  /\ fresult = [t \in 1..NumTasks |-> Returned(0)]
  /\ processed = {}
  /\ progress = 0
  /\ temp_files = <<>>
  /\ files = {}
  /\ execs = [t \in 1..NumTasks |-> 0]
  /\ save_calls = [t \in 1..NumTasks |-> 0]
  /\ dir_creates = 0
  /\ written = {}

NoResponse == [kind |-> "none", status |-> 0, found |-> 0, body |-> "none"]

(* no adapter object under observation *)
ParserUnbuilt ==
  /\ vpc = "unbuilt"
  /\ current_offset = 0
  /\ found_news_on_page = TRUE
  /\ news_list = <<>>
  /\ attempt = 0
  /\ calls = 0
  /\ outcomes = <<>>
  /\ ret = NoResponse
  /\ requested = <<>>
  /\ results = <<>>
  /\ adapter = None
  /\ current_page = 0
  /\ news_urls = <<>>
  /\ source_dates = {}
  /\ source_shapes = {}
  /\ next_url = 1
  /\ fetched = <<>>

(* merge_results has not been called *)
MergeIdle ==
  /\ merge_pc = "idle"
  /\ merge_input = <<>>
  /\ next_file = 1
  /\ merged = <<>>
  /\ total_articles = 0
  /\ kept = <<>>
  /\ merge_calls = 0
  /\ previous = <<>>

(* neither read_news_requests nor clean_text is under observation *)
UtilsIdle ==
  /\ read_pc = "idle"
  /\ catalog = <<>>
  /\ next_row = 1
  /\ read_results = <<>>
  /\ text_arg = Absent
  /\ cleaned = <<>>

(* self.user_agents of VedomostiParser.__init__ *)
user_agents ==
  <<"Chrome/91 Windows", "Safari/14.1 Macintosh", "Firefox/89 Windows",
    "Chrome/92 Linux">>

(* no headers dict is alive *)
NoAgent == "none"

(* no adapter has sent a request yet *)
NoTraffic ==
  /\ pace = "none"
  /\ user_agent = NoAgent
  /\ ua_choices = 0

Init ==
  /\ \E reqs \in RequestLists, workers \in 1..DefaultMaxWorkers :
       ScraperInit(reqs, workers)
  /\ ParserUnbuilt
  /\ MergeIdle
  /\ UtilsIdle
  /\ NoTraffic

(* executor.submit(self._run_parser, parser_name, company_range) *)
Submit ==
  /\ pc = "submit"
  /\ LET t == Len(future_to_task) + 1 IN
       /\ future_to_task' = Append(future_to_task, NextPair(Len(future_to_task)))
       /\ queue' = Append(queue, t)
       /\ fstate' = [fstate EXCEPT ![t] = "pending"]
       /\ pc' = IF t = NumTasks THEN "as_completed" ELSE "submit"
  /\ UNCHANGED <<vvars, avars, mvars, uvars, pvars>>
  /\ UNCHANGED <<requests, max_workers, temp_dir, worker, fresult, processed,
                 progress, temp_files, files, execs, save_calls, dir_creates,
                 written>>

(* faulty variant: a thread takes new work while it still runs a task *)
CanTake_Busy(w) == TRUE

(* a pool thread may take work only when it runs nothing; idle threads are  *)
(* interchangeable, so the lowest-numbered one stands for whichever wakes.  *)
CanTake(w) == worker[w] = 0 /\ \A v \in 1..(w - 1) : worker[v] # 0

(* a pool thread takes the oldest queued work item and starts _run_parser *)
WorkerTake(w) ==
  /\ queue # <<>>
  /\ CanTake(w)
  /\ LET t == Head(queue) IN
       /\ worker' = [worker EXCEPT ![w] = t]
       /\ fstate' = [fstate EXCEPT ![t] = "running"]
       /\ execs' = [execs EXCEPT ![t] = @ + 1]
  /\ queue' = Tail(queue)
  /\ UNCHANGED <<vvars, avars, mvars, uvars, pvars>>
  /\ UNCHANGED <<requests, max_workers, temp_dir, pc, future_to_task, fresult,
                 processed, progress, temp_files, files, save_calls,
                 dir_creates, written>>

(* _run_parser ends: the future holds its list of articles or its exception *)
WorkerFinish(w) ==
  /\ worker[w] # 0
  /\ fstate[worker[w]] = "running"
  /\ LET t == worker[w] IN
       /\ \E o \in RunParserOutcomes(TaskParser(t)) :
            fresult' = [fresult EXCEPT ![t] = o]
       /\ fstate' = [fstate EXCEPT ![t] = "finished"]
  /\ worker' = [worker EXCEPT ![w] = 0]
  /\ UNCHANGED <<vvars, avars, mvars, uvars, pvars>>
  /\ UNCHANGED <<requests, max_workers, temp_dir, pc, future_to_task, queue,
                 processed, progress, temp_files, files, execs, save_calls,
                 dir_creates, written>>

(* Scraper._escape_text_for_csv: "\r\n" and "\n" become one space each     *)
RECURSIVE EscapeText(_)
EscapeText(text) ==
  IF text = <<>> THEN <<>>
  ELSE IF Len(text) >= 2 /\ text[1] = "CR" /\ text[2] = "LF"
  THEN <<" ">> \o EscapeText(SubSeq(text, 3, Len(text)))
  ELSE IF text[1] = "LF"
  THEN <<" ">> \o EscapeText(Tail(text))
  ELSE <<text[1]>> \o EscapeText(Tail(text))

(* the header the Writer and the Merger write *)
Header ==
  << <<"link">>, <<"pubdate">>, <<"article_body">>, <<"title">>, <<"parser">>,
     <<"keyword">> >>

(* the row writer.writerow stores for one article *)
WriterRow(article, company_name) ==
  <<article.url, FormatDate(article.date), EscapeText(article.body),
    EscapeText(article.title), <<article.parser>>, company_name>>

(* the lines of a Partial Result File written without an error *)
WriterLines(articles, company_range) ==
  <<Header>> \o [k \in DOMAIN articles |-> WriterRow(articles[k], company_range.company)]

(* Scraper._save_temp_results for future t, the clock reading stamp *)
SaveTempResults(articles, company_range, parser_name, t, stamp) ==
  LET create == NeedsTempDir(temp_dir)
      dir == IF create THEN stamp ELSE temp_dir
      filename == Filename(company_range, parser_name)
      filepath == PathJoin(dir, filename)
      failed == OpenFails(filename)
  IN [temp_dir |-> dir,
      created |-> create,
      filepath |-> filepath,
      \* the except branch opens the same path again: that raises as well
      raised |-> failed,
      files |-> IF failed THEN files
                ELSE { f \in files : f.path # filepath }
                       \cup { [path |-> filepath, task |-> t,
                                rows |-> Len(articles),
                                lines |-> WriterLines(articles, company_range)] }]

(* faulty variant: the except branch forgets the progress bar *)
ProgressUpdate_NoError(n, branch) == IF branch = "error" THEN n ELSE n + 1

(* progress.update(1) in the branch process_parser_result ends in *)
ProgressUpdate(n, branch) == n + 1

(* process_parser_result for one completed future, in the main thread *)
Collect(t) ==
  /\ pc = "as_completed"
  /\ t \in DOMAIN future_to_task
  /\ fstate[t] = "finished"
  /\ t \notin processed
  /\ processed' = processed \cup {t}
  /\ IF fresult[t].raised
     THEN /\ progress' = ProgressUpdate(progress, "error")
          /\ UNCHANGED <<temp_dir, temp_files, files, save_calls, dir_creates,
                         written>>
     ELSE IF fresult[t].articles > 0
     THEN \E stamp \in Timestamps :
            LET articles == ReturnedArticles(TaskParser(t), TaskRange(t),
                                             fresult[t].articles)
                s == SaveTempResults(articles, TaskRange(t), TaskParser(t),
                                     t, stamp)
            IN /\ save_calls' = [save_calls EXCEPT ![t] = @ + 1]
               /\ temp_dir' = s.temp_dir
               /\ dir_creates' = IF s.created THEN dir_creates + 1
                                 ELSE dir_creates
               /\ files' = s.files
               /\ IF s.raised
                  THEN /\ UNCHANGED <<temp_files, written>>
                       /\ progress' = ProgressUpdate(progress, "error")
                  ELSE /\ temp_files' = Append(temp_files, s.filepath)
                       /\ written' = written \cup {<<t, s.filepath>>}
                       /\ progress' = ProgressUpdate(progress, "articles")
     ELSE /\ progress' = ProgressUpdate(progress, "empty")
          /\ UNCHANGED <<temp_dir, temp_files, files, save_calls, dir_creates,
                         written>>
  /\ UNCHANGED <<vvars, avars, mvars, uvars, pvars>>
  /\ UNCHANGED <<requests, max_workers, pc, future_to_task, queue, worker,
                 fstate, fresult, execs>>

(* as_completed is exhausted: the pool shuts down and run_parsers returns *)
Return ==
  /\ pc = "as_completed"
  /\ processed = 1..NumTasks
  /\ pc' = "returned"
  /\ UNCHANGED <<vvars, avars, mvars, uvars, pvars>>
  /\ UNCHANGED <<requests, max_workers, temp_dir, future_to_task, queue, worker,
                 fstate, fresult, processed, progress, temp_files, files,
                 execs, save_calls, dir_creates, written>>

(* ------------------------------------------------- the Vedomosti adapter *)
(* what one requests.get call can meet: a connection error or timeout      *)
(* (requests.RequestException), or a response with a status and, for a     *)
(* well-formed 200 body, its number of 'found' items                        *)
ConnError == [kind |-> "exception", status |-> 0, found |-> 0, body |-> "none"]
Response(status, found) ==
  [kind |-> "response", status |-> status, found |-> found, body |-> "found"]

(* 200 answers parse() cannot use: no text, text that is no JSON, JSON      *)
(* without a 'found' list                                                   *)
MalformedBodies == {"empty", "not_json", "no_found"}
Malformed(body) ==
  [kind |-> "response", status |-> OkStatus, found |-> 0, body |-> body]

(* statuses other than 200 and 418 *)
ErrorStatuses == {404, 500}

TransportOutcomes ==
  {ConnError, Response(TeapotStatus, 0)}
    \cup { Response(status, 0) : status \in ErrorStatuses }
    \cup { Response(OkStatus, n) : n \in 0..MaxFound }
    \cup { Malformed(body) : body \in MalformedBodies }

RaisedRequestException ==
  [kind |-> "raised", status |-> 0, found |-> 0, body |-> "none"]

(* the headers dict _make_request_with_retry builds before its loop: one   *)
(* random.choice(self.user_agents) for the request                        *)
ChooseAgent ==
  /\ user_agent' \in { user_agents[k] : k \in DOMAIN user_agents }
  /\ ua_choices' = 1

(* faulty variant: only the pause after a result page is taken *)
SleepsAfter_OnlyPages(branch) == branch = "page"

(* the branches that end in time.sleep: a 418 answer, a connection error   *)
(* that is retried, a RequestException caught by parse(), a result page    *)
SleepsAfter(branch) == branch \in {"teapot", "error", "raised", "page"}

(* what came last on the search endpoint after a request took this branch *)
PaceAfter(branch) == IF SleepsAfter(branch) THEN "slept" ELSE "request"

(* the while test of parse(); the body sets search_params["from"] and      *)
(* enters _make_request_with_retry, whose loop starts at attempt 0         *)
BeginRequest ==
  /\ vpc = "loop"
  /\ found_news_on_page
  /\ Len(requested) < MaxPages
  /\ requested' = Append(requested, current_offset)
  /\ attempt' = 0
  /\ calls' = 0
  /\ outcomes' = <<>>
  /\ vpc' = "retry"
  /\ ChooseAgent
  /\ UNCHANGED <<current_offset, found_news_on_page, news_list, ret, results>>
  /\ UNCHANGED <<cvars, avars, mvars, uvars, pace>>

(* faulty variant: a connection error is raised at once *)
RetryAfterError_Never(n) == FALSE

(* faulty variant: the last connection error is swallowed like the earlier ones *)
RetryAfterError_Always(n) == TRUE

(* the except branch of the retry loop: retry unless this was the last attempt *)
RetryAfterError(n) == n < max_retries - 1

(* faulty variant: one iteration too many *)
MoreAttempts_OffByOne(n) == n <= max_retries

(* `for attempt in range(self.max_retries)`: another iteration follows *)
MoreAttempts(n) == n < max_retries

(* faulty variant: every status but 200 is retried *)
RetriedStatus_AnyError(status) == status # OkStatus

(* `if response.status_code == 418`: the one status the loop retries *)
RetriedStatus(status) == status = TeapotStatus

(* one iteration of the retry loop: a requests.get call with the headers    *)
(* built before the loop, and what follows; the headers end with the call   *)
(* of _make_request_with_retry                                              *)
Attempt ==
  /\ vpc = "retry"
  /\ \E o \in TransportOutcomes :
       /\ calls' = calls + 1
       /\ outcomes' = Append(outcomes, o)
       /\ IF o.kind = "exception"
          THEN IF RetryAfterError(attempt)
               THEN \* time.sleep(delay); the loop goes on
                    /\ pace' = PaceAfter("error")
                    /\ attempt' = attempt + 1
                    /\ IF MoreAttempts(attempt + 1)
                       THEN UNCHANGED <<vpc, ret>>
                       ELSE vpc' = "got" /\ ret' = NoResponse
               ELSE \* raise
                    /\ pace' = PaceAfter("raise")
                    /\ vpc' = "got"
                    /\ ret' = RaisedRequestException
                    /\ UNCHANGED attempt
          ELSE IF RetriedStatus(o.status)
          THEN \* time.sleep(delay); continue
               /\ pace' = PaceAfter("teapot")
               /\ attempt' = attempt + 1
               /\ IF MoreAttempts(attempt + 1)
                  THEN UNCHANGED <<vpc, ret>>
                  ELSE \* the loop is exhausted: return None
                       vpc' = "got" /\ ret' = NoResponse
          ELSE \* return response
               /\ pace' = PaceAfter("response")
               /\ vpc' = "got"
               /\ ret' = o
               /\ UNCHANGED attempt
  /\ user_agent' = IF vpc' = "retry" THEN user_agent ELSE NoAgent
  /\ UNCHANGED <<current_offset, found_news_on_page, news_list, requested,
                 results>>
  /\ UNCHANGED <<cvars, avars, mvars, uvars, ua_choices>>

(* a date as the source prints it in 'published_at': YYYY-MM-DD *)
IsoDate(d) ==
  <<ToString(d.year), "-">> \o Pad2(d.month) \o <<"-">> \o Pad2(d.day)

(* the dates the source's items can carry for a request: one inside the    *)
(* requested year and one in the year before                               *)
SourceDates(company_range) ==
  { Date(company_range.start_date.year - back, 6, 15) : back \in {0, 1} }

(* what 'published_at' can hold: a printed date or text that is none       *)
PublishedAts(company_range) ==
  { IsoDate(d) : d \in SourceDates(company_range) } \cup { <<"n", "/", "a">> }

(* a source that applies the date_from and date_to of the query *)
FilteringSource(company_range) ==
  { IsoDate(Date(company_range.start_date.year, 6, 15)) }

(* the dates strptime(date_str[:10], "%Y-%m-%d") can read *)
ReadableDates ==
  { Date(y, m, d) : y \in 2021..2025, m \in {1, 6, 12}, d \in {1, 15, 31} }

Parseable(date_str) == \E d \in ReadableDates : IsoDate(d) = date_str

(* datetime.now() at the time of the run *)
Now == Date(2025, 6, 1)

(* VedomostiParser._parse_date: the date read from the string, the current *)
(* time when it cannot be read                                             *)
ParseDate(date_str) ==
  IF Parseable(date_str)
  THEN CHOOSE d \in ReadableDates : IsoDate(d) = date_str
  ELSE Now

(* the shapes an entry of 'found' can have: a 'source' with the four keys   *)
(* and texts in them, no 'source', a 'source' that lacks a key, and one     *)
(* whose 'boxes' is no str, on which clean_text raises                      *)
ItemShapes == {"full", "no_source", "no_key", "not_text"}

(* the title and boxes of the source's full items *)
ItemText == Str(<<"a", "NBSP", "a">>)

(* the entries the source can send *)
Items ==
  { [shape |-> "full", published_at |-> d] : d \in source_dates }
    \cup { [shape |-> sh, published_at |-> <<>>] :
             sh \in source_shapes \ {"full"} }

(* the 'found' lists a 200 answer with n items can hold *)
PageItems(n) == [1..n -> Items]

(* the item passes both tests of the loop and its processing does not raise *)
Processed(item) == item.shape = "full"

(* faulty variant: an item that is not processed ends the page *)
NextItem_Break(items, k) == IF Processed(items[k]) THEN k + 1 ELSE Len(items) + 1

(* `continue`, in the loop body and in its except branch: the next item *)
NextItem(items, k) == k + 1

(* parse() appends every well-formed item: no test of its date *)
KeepItem(date, company_range) == TRUE

(* the NewsArticle parse() builds from an item's 'source'; `dated` notes    *)
(* whether the date was read or is the fallback                            *)
ItemArticle(url, title, boxes, published_at) ==
  [url |-> url,
   title |-> clean_text(title),
   body |-> clean_text(boxes),
   parser |-> AdapterName.Vedomosti,
   date |-> ParseDate(published_at),
   dated |-> Parseable(published_at)]

RECURSIVE PageArticlesFrom(_, _, _, _)
PageArticlesFrom(offset, items, k, company_range) ==
  IF k > Len(items) THEN <<>>
  ELSE (IF Processed(items[k])
           /\ KeepItem(ParseDate(items[k].published_at), company_range)
        THEN << ItemArticle(<<offset, k>>, ItemText, ItemText,
                            items[k].published_at) >>
        ELSE <<>>)
       \o PageArticlesFrom(offset, items, NextItem(items, k), company_range)

(* the articles parse() builds from the items of a page *)
PageArticles(offset, items, company_range) ==
  PageArticlesFrom(offset, items, 1, company_range)

(* how a search request ended: with a result list of `found` entries, with *)
(* no response, or with the run stopped                                    *)
Page(found) == [kind |-> "page", found |-> found]
PageOf(items) == [kind |-> "page", found |-> Len(items), items |-> items]
NoPage == [kind |-> "none", found |-> 0]
Stopped == [kind |-> "stopped", found |-> 0]

(* the history entry for the request just handled; requests the history    *)
(* does not list leave no entry                                            *)
Noted(r) == IF Len(results) < Len(requested) THEN Append(results, r) ELSE results

(* faulty variant: the loop goes on after an empty page *)
FoundOnPage_Always(n) == TRUE

(* `self.found_news_on_page = len(...) > 0` *)
FoundOnPage(n) == n > 0

(* faulty variant: every 200 answer is taken for a result page *)
MalformedBody_Never(r) == FALSE

(* the three tests after the status: `not response.text.strip()`, a         *)
(* JSONDecodeError from response.json(), 'found' missing or no list         *)
MalformedBody(r) == r.body \in MalformedBodies

(* the body of parse()'s loop after _make_request_with_retry came back *)
HandleResponse ==
  /\ vpc = "got"
  /\ IF ret.kind = "none"
     THEN \* response is None: next page, continue
          /\ current_offset' = current_offset + limit
          /\ vpc' = "loop"
          /\ results' = Noted(NoPage)
          /\ UNCHANGED <<found_news_on_page, news_list, pace>>
     ELSE IF ret.kind = "raised"
     THEN \* except requests.RequestException: sleep(2); break
          /\ vpc' = "done"
          /\ pace' = PaceAfter("raised")
          /\ results' = Noted(Stopped)
          /\ UNCHANGED <<current_offset, found_news_on_page, news_list>>
     ELSE IF ret.status # OkStatus
     THEN \* break
          /\ vpc' = "done"
          /\ results' = Noted(Stopped)
          /\ UNCHANGED <<current_offset, found_news_on_page, news_list, pace>>
     ELSE IF MalformedBody(ret)
     THEN \* break
          /\ vpc' = "done"
          /\ results' = Noted(Stopped)
          /\ UNCHANGED <<current_offset, found_news_on_page, news_list, pace>>
     ELSE /\ \E items \in PageItems(ret.found) :
               /\ news_list' = news_list \o PageArticles(current_offset, items,
                                                         requests[1])
               /\ results' = Noted(PageOf(items))
          /\ found_news_on_page' = FoundOnPage(ret.found)
          /\ pace' = PaceAfter("page")
          /\ current_offset' = current_offset + limit
          /\ vpc' = "loop"
  /\ ua_choices' = 0
  /\ UNCHANGED <<attempt, calls, outcomes, ret, requested>>
  /\ UNCHANGED <<cvars, avars, mvars, uvars, user_agent>>

(* the while test fails: parse() returns news_list *)
ParseReturn ==
  /\ vpc = "loop"
  /\ ~found_news_on_page
  /\ vpc' = "done"
  /\ UNCHANGED <<current_offset, found_news_on_page, news_list, attempt, calls,
                 outcomes, ret, requested, results>>
  /\ UNCHANGED <<cvars, avars, mvars, uvars, pvars>>

(* VedomostiParser(company_range) for the one request of the list, at the   *)
(* start of parse()                                                         *)
VedomostiBuilt ==
  /\ \E reqs \in [1..1 -> WorkItems] : ScraperInit(reqs, DefaultMaxWorkers)
  /\ vpc = "loop"
  /\ current_offset = 0
  /\ found_news_on_page = TRUE
  /\ news_list = <<>>
  /\ attempt = 0
  /\ calls = 0
  /\ outcomes = <<>>
  /\ ret = NoResponse
  /\ requested = <<>>
  /\ results = <<>>
  /\ adapter = "Vedomosti"
  /\ current_page = 0
  /\ news_urls = <<>>
  /\ next_url = 1
  /\ fetched = <<>>
  /\ MergeIdle
  /\ UtilsIdle
  /\ NoTraffic

(* parse() against a source whose items all lie in the requested range *)
InitVedomosti ==
  /\ VedomostiBuilt
  /\ source_dates = FilteringSource(requests[1])
  /\ source_shapes = {"full"}

(* parse() against a source free in the dates its items carry *)
InitVedomostiDates ==
  /\ VedomostiBuilt
  /\ source_dates = PublishedAts(requests[1])
  /\ source_shapes = {"full"}

(* parse() against a source free in the shapes of its items *)
InitVedomostiItems ==
  /\ VedomostiBuilt
  /\ source_dates = FilteringSource(requests[1])
  /\ source_shapes = ItemShapes

NextVedomosti ==
  \/ BeginRequest
  \/ Attempt
  \/ HandleResponse
  \/ ParseReturn

SpecVedomosti == InitVedomosti /\ [][NextVedomosti]_vars

SpecVedomostiDates == InitVedomostiDates /\ [][NextVedomosti]_vars

SpecVedomostiItems == InitVedomostiItems /\ [][NextVedomosti]_vars

(* the while test of parse() for the pages after the MaxPages ones whose    *)
(* offsets the history records: the same step as BeginRequest, with the     *)
(* offsets of these later pages not told apart from the last recorded one   *)
LaterRequest ==
  /\ vpc = "loop"
  /\ found_news_on_page
  /\ Len(requested) = MaxPages
  /\ current_offset' = requested[MaxPages]
  /\ attempt' = 0
  /\ calls' = 0
  /\ outcomes' = <<>>
  /\ vpc' = "retry"
  /\ ChooseAgent
  /\ UNCHANGED <<found_news_on_page, news_list, ret, requested, results>>
  /\ UNCHANGED <<cvars, avars, mvars, uvars, pace>>

(* the source holds finitely many results: from page MaxPages on, a 200     *)
(* answer lists none                                                        *)
AttemptOnFiniteSource ==
  /\ Attempt
  /\ Len(requested) = MaxPages => outcomes'[Len(outcomes')].found = 0

(* parse() followed without a bound on the number of its requests; the      *)
(* thread that runs it keeps being scheduled, its sleeps and its requests   *)
(* (timeout=20) end                                                         *)
NextVedomostiFair ==
  \/ BeginRequest
  \/ LaterRequest
  \/ AttemptOnFiniteSource
  \/ HandleResponse
  \/ ParseReturn

SpecVedomostiFair ==
  InitVedomosti /\ [][NextVedomostiFair]_vars /\ WF_vars(NextVedomostiFair)

(* ------------------------------------- the Forbes and Kommersant loops *)
(* what one iteration of super_parse() can meet: requests.get, .json() or  *)
(* the handling of the body raises, or the body lists n results            *)
Raise == [kind |-> "raise", found |-> 0]
ForbesOutcomes == {Raise} \cup { Page(n) : n \in 0..MaxFound }

(* the dicts super_parse() builds from a page of n results *)
ForbesArticles(offset, n) ==
  [k \in 1..n |-> [url |-> <<offset, k>>, parser |-> AdapterName.Forbes]]

(* faulty variant: the offset is not advanced *)
NextOffset_Same(offset) == offset

(* `self.current_offset += self.offset_limit` *)
NextOffset(offset) == offset + offset_limit

(* one iteration of the while loop of ForbesParser.super_parse *)
ForbesPage ==
  /\ adapter = "Forbes"
  /\ vpc = "loop"
  /\ found_news_on_page
  /\ Len(requested) < MaxPages
  /\ requested' = Append(requested, current_offset)
  /\ \E o \in ForbesOutcomes :
       IF o.kind = "raise"
       THEN \* the exception leaves super_parse()
            /\ vpc' = "raised"
            /\ pace' = PaceAfter("raise")
            /\ results' = Append(results, Stopped)
            /\ UNCHANGED <<news_list, found_news_on_page, current_offset>>
       ELSE /\ news_list' = news_list \o ForbesArticles(current_offset, o.found)
            /\ pace' = PaceAfter("page")
            /\ found_news_on_page' = FoundOnPage(o.found)
            /\ current_offset' = NextOffset(current_offset)
            /\ results' = Append(results, o)
            /\ UNCHANGED vpc
  /\ UNCHANGED <<attempt, calls, outcomes, ret>>
  /\ UNCHANGED <<cvars, avars, mvars, uvars, user_agent, ua_choices>>

(* the while test fails: super_parse() returns news_list *)
ForbesReturn ==
  /\ adapter = "Forbes"
  /\ vpc = "loop"
  /\ ~found_news_on_page
  /\ vpc' = "done"
  /\ UNCHANGED <<current_offset, found_news_on_page, news_list, attempt, calls,
                 outcomes, ret, requested, results>>
  /\ UNCHANGED <<cvars, avars, mvars, uvars, pvars>>

(* the hrefs a Kommersant result page can list *)
Hrefs == {"/doc/1", "/doc/2"}

(* what one iteration of search_news() can meet: a request raises or the   *)
(* search page has no <a> (TypeError), its first link has an empty href,   *)
(* or the result page lists these matching links                           *)
NoRedirect == [kind |-> "no_redirect", found |-> 0, links |-> <<>>]
Links(links) == [kind |-> "page", found |-> Len(links), links |-> links]
KommersantOutcomes ==
  {[kind |-> "raise", found |-> 0, links |-> <<>>], NoRedirect}
    \cup { Links(l) : l \in UNION { [1..n -> Hrefs] : n \in 0..MaxFound } }

(* faulty variant: the collected list is returned as it is *)
ListsOfSet_Keep(urls) == {urls}

(* the orders list(set(news_urls)) can come out in *)
ListsOfSet(urls) ==
  LET S == { urls[k] : k \in DOMAIN urls }
  IN { l \in [1..Cardinality(S) -> S] : { l[k] : k \in DOMAIN l } = S }

(* one iteration of the while loop of KommersantParser.search_news *)
KommersantPage ==
  /\ adapter = "Kommersant"
  /\ vpc = "loop"
  /\ found_news_on_page
  /\ Len(requested) < MaxPages
  /\ requested' = Append(requested, current_page)
  /\ \E o \in KommersantOutcomes :
       IF o.kind = "raise"
       THEN \* the exception leaves search_news()
            /\ vpc' = "raised"
            /\ pace' = PaceAfter("raise")
            /\ results' = Append(results, Stopped)
            /\ UNCHANGED <<news_urls, found_news_on_page, current_page>>
       ELSE IF o.kind = "no_redirect"
       THEN \* break; return list(set(news_urls))
            /\ vpc' = "done"
            /\ pace' = PaceAfter("break")
            /\ results' = Append(results, Stopped)
            /\ news_urls' \in ListsOfSet(news_urls)
            /\ UNCHANGED <<found_news_on_page, current_page>>
       ELSE \* the page the redirect link leads to is fetched at once; its
            \* links are collected; time.sleep(0.5)
            /\ news_urls' = news_urls \o o.links
            /\ pace' = PaceAfter("page")
            /\ found_news_on_page' = FoundOnPage(o.found)
            /\ current_page' = current_page + 1
            /\ results' = Append(results, o)
            /\ UNCHANGED vpc
  /\ UNCHANGED <<current_offset, news_list, attempt, calls, outcomes, ret>>
  /\ UNCHANGED <<cvars, adapter, source_dates, source_shapes, next_url, fetched,
                 mvars, uvars, user_agent, ua_choices>>

(* the while test fails: search_news() returns list(set(news_urls)) *)
KommersantReturn ==
  /\ adapter = "Kommersant"
  /\ vpc = "loop"
  /\ ~found_news_on_page
  /\ vpc' = "done"
  /\ news_urls' \in ListsOfSet(news_urls)
  /\ UNCHANGED <<current_offset, current_page, found_news_on_page, news_list,
                 attempt, calls, outcomes, ret, requested, results>>
  /\ UNCHANGED <<cvars, adapter, source_dates, source_shapes, next_url, fetched,
                 mvars, uvars, pvars>>

(* what parse_article(url) can do: return the article or raise (the        *)
(* request fails, or the page cannot be taken apart)                       *)
FetchOutcomes == {"article", "raise"}

(* the NewsArticle parse_article builds from the page at url *)
KommersantArticle(url) ==
  [url |-> url,
   title |-> clean_text(ItemText),
   body |-> clean_text(ItemText),
   parser |-> AdapterName.Kommersant]

(* faulty variant: a URL that fails ends the loop *)
NextUrl_Stop(urls, k, outcome) ==
  IF outcome = "raise" THEN Len(urls) + 1 ELSE k + 1

(* `for url in news_urls`: the except branch prints and the loop goes on *)
NextUrl(urls, k, outcome) == k + 1

(* one iteration of the loop of BaseParser.parse over what search_news     *)
(* returned                                                                *)
FetchArticle ==
  /\ adapter = "Kommersant"
  /\ vpc = "done"
  /\ next_url <= Len(news_urls)
  /\ \E o \in FetchOutcomes :
       /\ fetched' = Append(fetched, [url |-> news_urls[next_url], outcome |-> o])
       /\ news_list' = IF o = "article"
                       THEN Append(news_list, KommersantArticle(news_urls[next_url]))
                       ELSE news_list
       /\ next_url' = NextUrl(news_urls, next_url, o)
  /\ UNCHANGED <<vpc, current_offset, found_news_on_page, attempt, calls,
                 outcomes, ret, requested, results>>
  /\ UNCHANGED <<cvars, adapter, current_page, news_urls, source_dates,
                 source_shapes, mvars, uvars, pvars>>

(* the loop is over: `return articles` *)
ParseEnd ==
  /\ adapter = "Kommersant"
  /\ vpc = "done"
  /\ next_url > Len(news_urls)
  /\ vpc' = "returned"
  /\ UNCHANGED <<current_offset, found_news_on_page, news_list, attempt, calls,
                 outcomes, ret, requested, results>>
  /\ UNCHANGED <<cvars, avars, mvars, uvars, pvars>>

(* one adapter object with the fields its __init__ assigns, at the start   *)
(* of its paging loop: VedomostiParser.parse, ForbesParser.super_parse or  *)
(* KommersantParser.search_news                                            *)
InitAdapters ==
  /\ \E reqs \in [1..1 -> WorkItems] : ScraperInit(reqs, DefaultMaxWorkers)
  /\ adapter \in { parsers[j] : j \in DOMAIN parsers }
  /\ vpc = "loop"
  /\ current_offset = 0
  /\ current_page = IF adapter = "Kommersant" THEN 1 ELSE 0
  /\ found_news_on_page = TRUE
  /\ news_list = <<>>
  /\ news_urls = <<>>
  /\ attempt = 0
  /\ calls = 0
  /\ outcomes = <<>>
  /\ ret = NoResponse
  /\ requested = <<>>
  /\ results = <<>>
  /\ source_dates = FilteringSource(requests[1])
  /\ source_shapes = {"full"}
  /\ next_url = 1
  /\ fetched = <<>>
  /\ MergeIdle
  /\ UtilsIdle
  /\ NoTraffic

VedomostiStep == adapter = "Vedomosti" /\ NextVedomosti

NextAdapters ==
  \/ VedomostiStep
  \/ ForbesPage
  \/ ForbesReturn
  \/ KommersantPage
  \/ KommersantReturn

SpecAdapters == InitAdapters /\ [][NextAdapters]_vars

(* BaseParser.parse of a Kommersant object: search_news, then the loop over *)
(* the URLs it returned                                                     *)
InitLinkList == InitAdapters /\ adapter = "Kommersant"

NextLinkList ==
  \/ KommersantPage
  \/ KommersantReturn
  \/ FetchArticle
  \/ ParseEnd

SpecLinkList == InitLinkList /\ [][NextLinkList]_vars

(* ------------------------------------------------------------ the merger *)
(* a data row with n fields, as csv.reader hands it over *)
DataRow(n, tag) ==
  SubSeq(<< <<"u", tag>>, <<"2023-06-15 00:00:00">>, <<"b", tag>>, <<"t", tag>>,
            <<"Vedomosti">>, <<"a", " ", "b">>, <<"x", tag>> >>, 1, n)

(* a file at a path of the list: whether it exists, its size in bytes, its *)
(* lines as the reader splits them, and the line at which reading raises   *)
(* (0: none)                                                               *)
File(exists, size, lines, fails_at) ==
  [exists |-> exists, size |-> size, lines |-> lines, fails_at |-> fails_at]

(* the files the input lists are drawn from: Partial Result Files as the   *)
(* Writer leaves them, files with short and long rows, an empty file, a    *)
(* missing one, one whose first line cannot be decoded, one whose third    *)
(* line cannot be read, and the Writer's error placeholder                 *)
SampleFiles ==
  { File(TRUE, 200, <<Header, DataRow(6, "1"), DataRow(6, "2")>>, 0),
    File(TRUE, 200, <<Header, DataRow(4, "3"), DataRow(5, "4"), DataRow(6, "5")>>, 0),
    File(TRUE, 200, <<Header, DataRow(7, "6"), DataRow(6, "7")>>, 0),
    File(TRUE, 60, <<Header>>, 0),
    File(TRUE, 0, <<>>, 0),
    File(FALSE, 0, <<>>, 0),
    File(TRUE, 200, <<Header, DataRow(6, "8")>>, 1),
    File(TRUE, 200, <<Header, DataRow(6, "8"), DataRow(6, "9")>>, 3),
    File(TRUE, 20, << << <<"Error during parsing">> >> >>, 0) }

InputLists == UNION { [1..n -> SampleFiles] : n \in 0..MaxFiles }

(* faulty variant: a row without the keyword column is dropped *)
RowRule_DropFive(row) == IF Len(row) >= 6 THEN <<row>> ELSE <<>>

(* the branch on len(row): what the loop writes for one row *)
RowRule(row) ==
  IF Len(row) >= 6 THEN <<row>>
  ELSE IF Len(row) = 5 THEN <<Append(row, <<>>)>>
  ELSE <<>>

RECURSIVE MergeRows(_)
(* the rows `for row in reader` writes for the rows it is handed *)
MergeRows(rows) ==
  IF rows = <<>> THEN <<>> ELSE RowRule(Head(rows)) \o MergeRows(Tail(rows))

(* faulty variant: the first line is treated as data *)
HeaderSkipped_Not(lines) == lines

(* next(reader, None): the first line, if any, is consumed *)
HeaderSkipped(lines) == IF lines = <<>> THEN <<>> ELSE Tail(lines)

(* the data rows the loop gets to read from a file: none when getsize      *)
(* raises, the file is under the minimum size or the first line cannot be  *)
(* read, otherwise the lines after the first up to the one that raises     *)
ReadableRows(f) ==
  IF ~f.exists \/ f.size < MinFileSize \/ f.fails_at = 1 THEN <<>>
  ELSE IF f.fails_at = 0 THEN HeaderSkipped(f.lines)
  ELSE HeaderSkipped(SubSeq(f.lines, 1, f.fails_at - 1))

(* whether the loop over a file's rows ends without an exception, so that  *)
(* `total_articles += file_articles` is reached                            *)
ReadToEnd(f) == f.exists /\ f.size >= MinFileSize /\ f.fails_at = 0

(* run_parsers has returned (here: with no task), temp_dir as a run left it *)
InitMerge ==
  /\ requests = <<>>
  /\ max_workers = DefaultMaxWorkers
  /\ temp_dir \in {None} \cup Timestamps
  /\ pc = "returned"
  /\ future_to_task = <<>>
  /\ queue = <<>>
  /\ worker = [w \in 1..max_workers |-> 0]
  /\ fstate = <<>>
  /\ fresult = <<>>
  /\ processed = {}
  /\ progress = 0
  /\ temp_files = <<>>
  /\ files = {}
  /\ execs = <<>>
  /\ save_calls = <<>>
  /\ dir_creates = IF temp_dir = None THEN 0 ELSE 1
  /\ written = {}
  /\ ParserUnbuilt
  /\ merge_pc = "start"
  /\ merge_input \in InputLists
  /\ next_file = 1
  /\ merged = <<>>
  /\ total_articles = 0
  /\ kept = <<>>
  /\ merge_calls = 1
  /\ previous = <<>>
  /\ UtilsIdle
  /\ NoTraffic

(* faulty variant: the output file is opened for appending *)
OpenOutput_Append(old) == old \o <<Header>>

(* open(merged_file, 'w') and the header row: what the file held is gone *)
OpenOutput(old) == <<Header>>

(* merge_results up to the loop: the check of temp_dir, then the output    *)
(* file is opened and the header written                                   *)
MergeStart ==
  /\ merge_pc = "start"
  /\ IF temp_dir = None
     THEN \* raise ValueError
          /\ merge_pc' = "raised"
          /\ UNCHANGED merged
     ELSE /\ merge_pc' = "files"
          /\ merged' = OpenOutput(merged)
  /\ UNCHANGED <<merge_input, next_file, total_articles, kept, merge_calls,
                 previous>>
  /\ UNCHANGED <<cvars, vvars, avars, uvars, pvars>>

(* faulty variant: a file that yields no row ends the loop *)
AfterFile_StopOnEmpty(f, n) ==
  IF MergeRows(ReadableRows(f)) = <<>> THEN Len(merge_input) + 1 ELSE n + 1

(* faulty variant: a file that cannot be read ends the loop *)
AfterFile_Abort(f, n) == IF ReadToEnd(f) THEN n + 1 ELSE Len(merge_input) + 1

(* where the loop stands after a file: `continue` for a small file and the *)
(* except branch for one that raises both go on with the next path         *)
AfterFile(f, n) == n + 1

(* one iteration of `for temp_file in pbar` *)
MergeFile ==
  /\ merge_pc = "files"
  /\ next_file <= Len(merge_input)
  /\ LET f == merge_input[next_file]
         rows == MergeRows(ReadableRows(f))
     IN /\ merged' = merged \o rows
        /\ kept' = Append(kept, rows)
        /\ total_articles' = IF ReadToEnd(f) THEN total_articles + Len(rows)
                             ELSE total_articles
  /\ next_file' = AfterFile(merge_input[next_file], next_file)
  /\ UNCHANGED <<merge_pc, merge_input, merge_calls, previous>>
  /\ UNCHANGED <<cvars, vvars, avars, uvars, pvars>>

(* the loop is over: the statistics are printed, merged_file is returned *)
MergeReturn ==
  /\ merge_pc = "files"
  /\ next_file > Len(merge_input)
  /\ merge_pc' = "returned"
  /\ UNCHANGED <<merge_input, next_file, merged, total_articles, kept,
                 merge_calls, previous>>
  /\ UNCHANGED <<cvars, vvars, avars, uvars, pvars>>

(* merge_results is called again with the same list: total_articles and    *)
(* the loop start anew, the merged file is as the call before left it      *)
MergeAgain ==
  /\ merge_pc = "returned"
  /\ merge_calls < MaxMerges
  /\ merge_calls' = merge_calls + 1
  /\ previous' = merged
  /\ merge_pc' = "start"
  /\ next_file' = 1
  /\ total_articles' = 0
  /\ kept' = <<>>
  /\ UNCHANGED <<merge_input, merged>>
  /\ UNCHANGED <<cvars, vvars, avars, uvars, pvars>>

NextMerge ==
  \/ MergeStart
  \/ MergeFile
  \/ MergeReturn
  \/ MergeAgain

SpecMerge == InitMerge /\ [][NextMerge]_vars

Next ==
  \/ Submit
  \/ \E w \in 1..max_workers : WorkerTake(w)
  \/ \E w \in 1..max_workers : WorkerFinish(w)
  \/ \E t \in 1..NumTasks : Collect(t)
  \/ Return

Spec == Init /\ [][Next]_vars

(* ------------------------------------------------------------- process() *)
(* the file merge_results finds at a path run_parsers listed: what the     *)
(* last write to the path left, the header line alone filling HeaderBytes  *)
FileAt(path) ==
  LET f == CHOOSE x \in files : x.path = path
  IN File(TRUE, HeaderBytes * Len(f.lines), f.lines, 0)

(* `output_file = self.merge_results(temp_files)` after run_parsers *)
ProcessMerge ==
  /\ pc = "returned"
  /\ merge_pc = "idle"
  /\ merge_pc' = "start"
  /\ merge_input' = [k \in DOMAIN temp_files |-> FileAt(temp_files[k])]
  /\ merge_calls' = 1
  /\ UNCHANGED <<next_file, merged, total_articles, kept, previous>>
  /\ UNCHANGED <<cvars, vvars, avars, uvars, pvars>>

(* Scraper().process() on the list read_requests hands over *)
InitProcess ==
  /\ \E reqs \in RequestLists : ScraperInit(reqs, DefaultMaxWorkers)
  /\ ParserUnbuilt
  /\ MergeIdle
  /\ UtilsIdle
  /\ NoTraffic

NextProcess ==
  \/ Next
  \/ ProcessMerge
  \/ MergeStart
  \/ MergeFile
  \/ MergeReturn

SpecProcess == InitProcess /\ [][NextProcess]_vars

(* ----------------------------------------------------- read_news_requests *)
(* the label of the news category in the source column: the Russian word   *)
(* for news in Cyrillic letters, written here in Latin ones                *)
NewsMarker == <<"Novosti">>

(* what the columns of a catalog row can hold, as sequences of characters  *)
Companies == { <<"A", "c", "m", "e">> }
YearSuffixes == { <<"2", "3">>, <<"2", "4">> }
Flags == { <<"T", "R", "U", "E">>, <<"t", "r", "u", "e">>, <<"F", "A", "L", "S", "E">> }
SourceLabels == { NewsMarker, <<"News">>, <<"Otchety">> }

Catalogs ==
  UNION { [1..n -> Companies \X YearSuffixes \X Flags \X SourceLabels] :
            n \in 0..MaxRows }

(* str.upper on the letters the flags are written with *)
UpperChar(c) ==
  LET up == [t |-> "T", r |-> "R", u |-> "U", e |-> "E", f |-> "F", a |-> "A",
             l |-> "L", s |-> "S"]
  IN IF c \in DOMAIN up THEN up[c] ELSE c

Upper(str) == [k \in DOMAIN str |-> UpperChar(str[k])]

(* int() on a string of decimal digits *)
DigitValue(c) == CHOOSE d \in 0..9 : ToString(d) = c

RECURSIVE IntOf(_)
IntOf(digits) ==
  IF digits = <<>> THEN 0
  ELSE 10 * IntOf(SubSeq(digits, 1, Len(digits) - 1)) + DigitValue(digits[Len(digits)])

(* faulty variant: the source column is not looked at *)
Selected_AnySource(has_rating, source) == Upper(has_rating) = <<"T", "R", "U", "E">>

(* `if has_rating.upper() == 'TRUE' and source == <news marker>` *)
Selected(has_rating, source) ==
  Upper(has_rating) = <<"T", "R", "U", "E">> /\ source = NewsMarker

(* the CompanyDateRange built for a selected row: year = int('20' + year) *)
RowRange(company, year) ==
  LET y == IntOf(<<"2", "0">> \o year)
  IN [company |-> company, start_date |-> Date(y, 1, 1),
      end_date |-> Date(y, 12, 31)]

(* read_news_requests is called on a catalog of well-formed rows *)
InitRead ==
  /\ ScraperInit(<<>>, DefaultMaxWorkers)
  /\ ParserUnbuilt
  /\ MergeIdle
  /\ read_pc = "rows"
  /\ catalog \in Catalogs
  /\ next_row = 1
  /\ read_results = <<>>
  /\ text_arg = Absent
  /\ cleaned = <<>>
  /\ NoTraffic

(* one iteration of `for row in reader` *)
ReadRow ==
  /\ read_pc = "rows"
  /\ next_row <= Len(catalog)
  /\ LET row == catalog[next_row]
     IN read_results' = IF Selected(row[3], row[4])
                        THEN Append(read_results, RowRange(row[1], row[2]))
                        ELSE read_results
  /\ next_row' = next_row + 1
  /\ UNCHANGED <<read_pc, catalog, text_arg, cleaned>>
  /\ UNCHANGED <<cvars, vvars, avars, mvars, pvars>>

(* the loop is over: `return results` *)
ReadReturn ==
  /\ read_pc = "rows"
  /\ next_row > Len(catalog)
  /\ read_pc' = "returned"
  /\ UNCHANGED <<catalog, next_row, read_results, text_arg, cleaned>>
  /\ UNCHANGED <<cvars, vvars, avars, mvars, pvars>>

NextRead ==
  \/ ReadRow
  \/ ReadReturn

SpecRead == InitRead /\ [][NextRead]_vars

(* ------------------------------------------------------------- clean_text *)
(* clean_text is about to be called on a text, and an item whose title and *)
(* boxes hold that text is about to be made a NewsArticle                   *)
InitClean ==
  /\ ScraperInit(<<>>, DefaultMaxWorkers)
  /\ ParserUnbuilt
  /\ MergeIdle
  /\ read_pc = "idle"
  /\ catalog = <<>>
  /\ next_row = 1
  /\ read_results = <<>>
  /\ text_arg \in Texts
  /\ cleaned = <<>>
  /\ NoTraffic

(* clean_text(text) *)
CleanText ==
  /\ cleaned = <<>>
  /\ cleaned' = <<clean_text(text_arg)>>
  /\ UNCHANGED <<read_pc, catalog, next_row, read_results, text_arg>>
  /\ UNCHANGED <<cvars, vvars, avars, mvars, pvars>>

(* clean_text on what clean_text returned *)
CleanAgain ==
  /\ Len(cleaned) = 1
  /\ cleaned' = Append(cleaned, clean_text(Str(cleaned[1])))
  /\ UNCHANGED <<read_pc, catalog, next_row, read_results, text_arg>>
  /\ UNCHANGED <<cvars, vvars, avars, mvars, pvars>>

(* news_list.append(NewsArticle(...)) for an item with the text as its      *)
(* title and its boxes                                                      *)
BuildArticle ==
  /\ news_list = <<>>
  /\ news_list' = << ItemArticle(<<0, 1>>, text_arg, text_arg,
                                IsoDate(Date(2023, 6, 15))) >>
  /\ UNCHANGED <<vpc, current_offset, found_news_on_page, attempt, calls,
                 outcomes, ret, requested, results>>
  /\ UNCHANGED <<cvars, avars, mvars, uvars, pvars>>

NextClean ==
  \/ CleanText
  \/ CleanAgain
  \/ BuildArticle

SpecClean == InitClean /\ [][NextClean]_vars

(* ================================================================ claims *)
Futures == DOMAIN future_to_task
Running == { t \in 1..NumTasks : fstate[t] = "running" }
Finished == { t \in 1..NumTasks : fstate[t] = "finished" }
ErrorTasks == { t \in Finished : fresult[t].raised }
EmptyTasks == { t \in Finished : ~fresult[t].raised /\ fresult[t].articles = 0 }
ArticleTasks == { t \in Finished : ~fresult[t].raised /\ fresult[t].articles > 0 }
PairFutures(i, j) == { t \in Futures : future_to_task[t] = <<i, j>> }
PathsOf(t) == { w[2] : w \in { x \in written : x[1] = t } }
ListedPaths == { temp_files[k] : k \in DOMAIN temp_files }

(* C1: run_parsers schedules |requests| x |adapters| tasks: every (work     *)
(* item, adapter) pair is submitted exactly once, and no future's task is   *)
(* started a second time, whatever its outcome.                             *)
C1_EachPairOnce ==
  /\ Len(future_to_task) <= NumTasks
  /\ \A i \in DOMAIN requests, j \in DOMAIN parsers :
       /\ Cardinality(PairFutures(i, j)) <= 1
       /\ pc # "submit" => Cardinality(PairFutures(i, j)) = 1
  /\ pc # "submit" => Len(future_to_task) = Len(requests) * Len(parsers)
  /\ \A t \in 1..NumTasks : execs[t] <= 1
  /\ pc = "returned" => \A t \in 1..NumTasks : execs[t] = 1

C1_Witness ==
  /\ pc = "returned"
  /\ Len(requests) = 2
  /\ ErrorTasks # {}
  /\ EmptyTasks # {}
  /\ \A t \in 1..NumTasks : execs[t] = 1

(* C2 (as claimed): when run_parsers returns, every task has run to its end *)
(* and the returned list holds exactly one path for every task that         *)
(* returned at least one article and none for a task that raised.           *)
C2_PathPerArticleTask ==
  pc = "returned" =>
    /\ Finished = 1..NumTasks
    /\ \A t \in ArticleTasks :
         Cardinality(PathsOf(t)) = 1 /\ PathsOf(t) \subseteq ListedPaths
    /\ \A t \in ErrorTasks : PathsOf(t) = {}
    /\ Len(temp_files) = Cardinality(ArticleTasks)

(* C3: the progress counter never decreases, grows by exactly one with each *)
(* future process_parser_result handles (articles, none or an exception),   *)
(* and equals the number of scheduled tasks when run_parsers returns.       *)
C3_ProgressCounts ==
  /\ [](progress = Cardinality(processed))
  /\ [](pc = "returned" => progress = NumTasks)
  /\ [][/\ progress' >= progress
        /\ processed' # processed => progress' = progress + 1]_vars

C3_Witness ==
  /\ pc = "returned"
  /\ progress = 6
  /\ ErrorTasks # {}
  /\ EmptyTasks # {}
  /\ ArticleTasks # {}

(* C4: at most max_workers tasks execute at any moment, and a pool thread   *)
(* leaves the task it runs only when that task has finished.                *)
C4_BoundedPool ==
  /\ [](Cardinality(Running) <= max_workers)
  /\ [][\A w \in 1..max_workers :
          (worker[w] # 0 /\ worker'[w] # worker[w]) =>
            (worker'[w] = 0 /\ fstate'[worker[w]] = "finished")]_vars

C4_Witness ==
  /\ max_workers = DefaultMaxWorkers
  /\ Cardinality(Running) = max_workers
  /\ queue # <<>>

(* C5 (as claimed): every handled task that returned at least one article   *)
(* caused exactly one call of the Writer and exactly one path in the list;  *)
(* a task that returned none caused no call and no path and ran once.       *)
C5_OneWriteOnePath ==
  \A t \in processed :
    /\ execs[t] = 1
    /\ t \in ArticleTasks =>
         /\ save_calls[t] = 1
         /\ Cardinality({ k \in DOMAIN temp_files : temp_files[k] \in PathsOf(t) }) >= 1
         /\ Cardinality(PathsOf(t)) = 1
    /\ t \in EmptyTasks => save_calls[t] = 0 /\ PathsOf(t) = {}

(* C6 (as claimed): in every run the run directory is created exactly once. *)
C6_CreatedExactlyOnce ==
  pc = "returned" => dir_creates = 1

(* C6 (amended): temp_dir is assigned at most once in a run, exactly once   *)
(* as soon as the Writer has been called and never when no task returned    *)
(* articles; every Partial Result File lies under that one directory.       *)
C6_CreatedAtMostOnce ==
  /\ dir_creates <= 1
  /\ dir_creates = 1 <=> (\E t \in 1..NumTasks : save_calls[t] > 0)
  /\ dir_creates = 0 <=> temp_dir = None
  /\ \A w \in written : w[2][1] = temp_dir
  /\ \A f \in files : f.path[1] = temp_dir
  /\ \A k \in DOMAIN temp_files : temp_files[k][1] = temp_dir

C6_Witness ==
  /\ pc = "returned"
  /\ dir_creates = 1
  /\ Cardinality({ w[1] : w \in written }) = 2

(* C7 (as claimed): two distinct tasks of one run never write to the same   *)
(* Partial Result File path.                                                *)
C7_DisjointPaths ==
  \A w1, w2 \in written : w1[1] # w2[1] => w1[2] # w2[2]

(* ------------------------------------------------- the retry policy *)
(* an attempt the policy retries: HTTP 418 or a transport error *)
Failure(o) == o.kind = "exception" \/ o.status = TeapotStatus

(* the number of failed attempts the current request began with *)
LeadingFailures ==
  Cardinality({ n \in DOMAIN outcomes : \A i \in 1..n : Failure(outcomes[i]) })

PolicyReturned == vpc = "got"

(* C8: when the first k < max_retries attempts fail with 418 or a transport *)
(* error and attempt k+1 gets a response, the policy hands back that        *)
(* response after exactly k+1 transport calls.                              *)
C8_ResponseAfterFailures ==
  (PolicyReturned /\ LeadingFailures < max_retries) =>
    /\ Len(outcomes) = LeadingFailures + 1
    /\ calls = LeadingFailures + 1
    /\ ret = outcomes[LeadingFailures + 1]
    /\ ret.kind = "response"

C8_Witness ==
  /\ PolicyReturned
  /\ LeadingFailures = max_retries - 1
  /\ \E i \in 1..LeadingFailures : outcomes[i].kind = "exception"
  /\ \E i \in 1..LeadingFailures : outcomes[i].status = TeapotStatus
  /\ calls = max_retries
  /\ ret = Response(OkStatus, 1)

(* C9: when every attempt is answered with HTTP 418, the policy makes       *)
(* exactly max_retries calls and returns the 'no response' sentinel; it     *)
(* never makes more than max_retries calls for one request.                 *)
C9_AlwaysTeapot ==
  /\ calls <= max_retries
  /\ (PolicyReturned /\ \A i \in DOMAIN outcomes : outcomes[i].status = TeapotStatus) =>
       /\ calls = max_retries
       /\ Len(outcomes) = max_retries
       /\ ret = NoResponse

C9_Witness ==
  /\ PolicyReturned
  /\ Len(outcomes) = max_retries
  /\ \A i \in DOMAIN outcomes : outcomes[i].status = TeapotStatus
  /\ ret = NoResponse

AllConnErrors ==
  outcomes # <<>> /\ \A i \in DOMAIN outcomes : outcomes[i].kind = "exception"

(* C10 (as claimed): when every attempt fails with a connection error, the  *)
(* policy makes exactly 5 attempts and returns the 'no response' sentinel,  *)
(* and parse() then advances to the next page.                              *)
C10_ConnErrorsEndInNoResponse ==
  /\ [](PolicyReturned /\ AllConnErrors => calls = max_retries /\ ret = NoResponse)
  /\ [][(PolicyReturned /\ AllConnErrors) =>
          (vpc' = "loop" /\ current_offset' = current_offset + limit)]_vars

(* C10 (amended): when every attempt fails with a connection error, the     *)
(* policy makes exactly 5 attempts and then re-raises the error; parse()    *)
(* catches it and ends the run with the articles collected so far, without  *)
(* advancing to another page.                                               *)
C10_ConnErrorsEndTheRun ==
  /\ [](PolicyReturned /\ AllConnErrors =>
          calls = max_retries /\ ret = RaisedRequestException)
  /\ [][(PolicyReturned /\ AllConnErrors) =>
          /\ vpc' = "done"
          /\ news_list' = news_list
          /\ current_offset' = current_offset
          /\ requested' = requested]_vars

C10_Witness ==
  /\ vpc = "done"
  /\ AllConnErrors
  /\ calls = max_retries
  /\ ret = RaisedRequestException
  /\ Len(requested) = 2
  /\ Len(news_list) = 1

(* a response whose status is neither 200 nor 418 *)
ErrorResponse(o) ==
  o.kind = "response" /\ o.status \notin {OkStatus, TeapotStatus}

(* C11: a response with an error status other than 418 is not retried: it   *)
(* is the last transport call of its request (the only one when it answers  *)
(* the first attempt) and is handed to parse(), which ends the run without  *)
(* another search request and without losing collected articles.            *)
C11_ErrorStatusEndsRun ==
  /\ [](\A i \in DOMAIN outcomes :
          ErrorResponse(outcomes[i]) =>
            /\ i = Len(outcomes)
            /\ calls = i
            /\ vpc \in {"got", "done"}
            /\ ret = outcomes[i])
  /\ [][(PolicyReturned /\ ErrorResponse(ret)) =>
          /\ vpc' = "done"
          /\ requested' = requested
          /\ news_list' = news_list]_vars
  /\ [][vpc = "done" => (vpc' = "done" /\ requested' = requested /\ calls' = calls)]_vars

C11_Witness ==
  /\ vpc = "done"
  /\ ErrorResponse(ret)
  /\ calls = 1
  /\ Len(requested) = 2
  /\ Len(news_list) = 1

(* C12 (as claimed): parse() returns after finitely many search requests    *)
(* when the source answers every request with HTTP 418: either the source   *)
(* departs from 418 or parse() ends.                                        *)
C12_ReturnsUnderTeapot ==
  <>(\/ vpc = "done"
     \/ \E i \in DOMAIN outcomes : outcomes[i].status # TeapotStatus)

(* ------------------------------------------------------ the paging loops *)
EmptyPage(r) == r.kind = "page" /\ r.found = 0
FilledPage(r) == r.kind = "page" /\ r.found > 0

(* C13: after the first request whose result list is empty the adapter     *)
(* issues no further search request, and a request that listed at least    *)
(* one result leaves the adapter at its loop test with the test true, from *)
(* where its only step is the request for the next page.                   *)
C13_EmptyPageEndsSearch ==
  /\ [](\A i \in DOMAIN results : EmptyPage(results[i]) => Len(requested) = i)
  /\ [](\A i \in DOMAIN results :
          (FilledPage(results[i]) /\ Len(requested) = i) =>
            (vpc = "loop" /\ found_news_on_page))
  /\ [][(vpc = "loop" /\ found_news_on_page) =>
          (Len(requested') = Len(requested) + 1)]_vars
  /\ [][(vpc \in {"done", "raised"}) => (requested' = requested)]_vars

C13_Witness ==
  /\ adapter = "Forbes"
  /\ vpc = "done"
  /\ requested = <<0, offset_limit>>
  /\ results = <<Page(1), Page(0)>>

FirstRequest(a) == IF a = "Kommersant" THEN 1 ELSE 0
PageSize(a) ==
  IF a = "Vedomosti" THEN limit ELSE IF a = "Forbes" THEN offset_limit ELSE 1

(* C14: the i-th request of a run asks for the first offset (0, page 1 for *)
(* Kommersant) plus i-1 page sizes, so the requested offsets are strictly  *)
(* increasing and none is asked twice; a request begins only when every    *)
(* earlier one has ended.                                                  *)
C14_IncreasingOffsets ==
  /\ [](\A i \in DOMAIN requested :
          requested[i] = FirstRequest(adapter) + (i - 1) * PageSize(adapter))
  /\ [](\A i, j \in DOMAIN requested : i < j => requested[i] < requested[j])
  /\ [](Len(results) <= Len(requested) /\ Len(requested) <= Len(results) + 1)
  /\ [][requested' # requested =>
          (Len(results) = Len(requested) /\ Len(requested') = Len(requested) + 1)]_vars

C14_Witness ==
  /\ adapter = "Vedomosti"
  /\ requested = <<0, limit, 2 * limit>>
  /\ Len(results) = 2
  /\ results[1] = NoPage
  /\ FilledPage(results[2]) /\ results[2].found = 1
  /\ vpc = "retry"
  /\ calls = 2

(* ------------------------------------------------------ building adapters *)
(* C15 (as claimed): for each registered adapter, _run_parser(name, r)     *)
(* builds the adapter from r and returns without raising: no finished      *)
(* future of any of the three adapters holds an exception.                 *)
C15_EveryAdapterReturns ==
  \A t \in Finished :
    TaskParser(t) \in {"Forbes", "Vedomosti", "Kommersant"} => ~fresult[t].raised

(* ------------------------------------------------------ the parser field *)
(* C16: every article a task returned has the name of the task's adapter   *)
(* in its parser field, and every row of the task's Partial Result File    *)
(* carries that name in the fifth column, the one headed 'parser'.         *)
C16_ParserColumn ==
  /\ Header[5] = <<"parser">>
  /\ \A t \in ArticleTasks :
       \A a \in { ReturnedArticles(TaskParser(t), TaskRange(t), fresult[t].articles)[k] :
                    k \in 1..fresult[t].articles } :
         a.parser = TaskParser(t)
  /\ \A f \in files :
       /\ f.lines[1] = Header
       /\ Len(f.lines) = fresult[f.task].articles + 1
       /\ \A k \in 2..Len(f.lines) :
            Len(f.lines[k]) = 6 /\ f.lines[k][5] = <<TaskParser(f.task)>>

C16_Witness ==
  /\ pc = "returned"
  /\ \E f \in files :
       /\ TaskParser(f.task) = "Vedomosti"
       /\ Len(f.lines) = 2
       /\ f.lines[2][5] = <<"Vedomosti">>

(* -------------------------------------------------------- article dates *)
DateLE(a, b) ==
  \/ a.year < b.year
  \/ a.year = b.year /\ a.month < b.month
  \/ a.year = b.year /\ a.month = b.month /\ a.day <= b.day

InRange(date, company_range) ==
  DateLE(company_range.start_date, date) /\ DateLE(date, company_range.end_date)

(* C17 (as claimed): every article parse() has collected for request r     *)
(* whose date was read from the source lies within [r.start_date,          *)
(* r.end_date], whatever dates the source's items carry.                   *)
C17_DatesInRange ==
  \A k \in DOMAIN news_list :
    news_list[k].dated => InRange(news_list[k].date, requests[1])

(* ------------------------------------------------------------ the merger *)
Handled == 1..(next_file - 1)

Narrow(row) == Len(row) <= 6

RECURSIVE PaddedOrKept(_)
(* the rows the claimed rule yields for rows of at most 6 fields *)
PaddedOrKept(rows) ==
  IF rows = <<>> THEN <<>>
  ELSE (IF Len(Head(rows)) < 5 THEN <<>>
        ELSE IF Len(Head(rows)) = 5 THEN <<Head(rows) \o << <<>> >> >>
        ELSE <<Head(rows)>>)
       \o PaddedOrKept(Tail(rows))

RECURSIVE Flatten(_)
Flatten(seqs) == IF seqs = <<>> THEN <<>> ELSE Head(seqs) \o Flatten(Tail(seqs))

FieldCounts(rows) == [k \in DOMAIN rows |-> Len(rows[k])]

(* C18: of the data rows read from an input file, those with fewer than 5  *)
(* fields are dropped, those with 5 are written with an empty 6th field    *)
(* appended and those with 6 are written unchanged, in file order; a file  *)
(* with a 4-, a 5- and a 6-field row contributes exactly two rows.         *)
C18_RowRule ==
  /\ merge_pc \in {"files", "returned"} => merged = <<Header>> \o Flatten(kept)
  /\ \A i \in Handled :
       LET rows == ReadableRows(merge_input[i]) IN
         /\ SelectSeq(kept[i], Narrow) = PaddedOrKept(SelectSeq(rows, Narrow))
         /\ FieldCounts(rows) = <<4, 5, 6>> =>
              kept[i] = <<Append(rows[2], <<>>), rows[3]>>

C18_Witness ==
  /\ merge_pc = "returned"
  /\ Len(merge_input) = 2
  /\ FieldCounts(ReadableRows(merge_input[2])) = <<4, 5, 6>>
  /\ Len(kept[1]) = 2
  /\ Len(kept[2]) = 2
  /\ Len(merged) = 5
  /\ Len(merged[4]) = 6 /\ merged[4][6] = <<>>

(* C19 (as claimed): every row of the Merged Dataset has exactly 6 fields, *)
(* whatever the input files hold.                                          *)
C19_SixFields ==
  \A k \in DOMAIN merged : Len(merged[k]) = 6

(* C20: once merge_results has opened its output, the Merged Dataset       *)
(* starts with the header and holds it nowhere else, and the first line of *)
(* every input file read is consumed without being written.                *)
C20_HeaderOnce ==
  /\ merge_pc \in {"files", "returned"} =>
       /\ merged # <<>>
       /\ merged[1] = Header
       /\ \A k \in 2..Len(merged) : merged[k] # Header
  /\ \A i \in Handled :
       Len(kept[i]) <= Len(merge_input[i].lines) - 1 \/ merge_input[i].lines = <<>>

C20_Witness ==
  /\ merge_pc = "returned"
  /\ Len(merge_input) = 2
  /\ merge_input[1].size < MinFileSize
  /\ Len(merge_input[2].lines) = 3
  /\ merge_input[2].lines[1] = Header
  /\ Len(kept[2]) = 2
  /\ Len(merged) = 3
  /\ merged[1] = Header

RECURSIVE SumLen(_)
SumLen(seqs) == IF seqs = <<>> THEN 0 ELSE Len(Head(seqs)) + SumLen(Tail(seqs))

(* C21 (as claimed): when merge_results returns, the total it reports      *)
(* equals the sum of the rows kept from each input file, which is the      *)
(* number of data rows written to the Merged Dataset.                      *)
C21_TotalReconciles ==
  merge_pc = "returned" =>
    /\ total_articles = SumLen(kept)
    /\ total_articles = Len(merged) - 1

(* the list holds Partial Result Files that can be read to their end *)
ValidInput == \A i \in DOMAIN merge_input : ReadToEnd(merge_input[i])

(* C22: merge_results called a second time with the same list of valid     *)
(* Partial Result Files leaves the Merged Dataset with the rows the first   *)
(* call produced, none added, dropped or duplicated, and no call changes    *)
(* the input files.                                                         *)
C22_MergeIdempotent ==
  /\ [](merge_calls = MaxMerges /\ merge_pc = "returned" /\ ValidInput
          => merged = previous)
  /\ [][merge_input' = merge_input]_vars

C22_Witness ==
  /\ merge_calls = MaxMerges
  /\ merge_pc = "returned"
  /\ ValidInput
  /\ Len(merge_input) = 2
  /\ Len(merged) > 3
  /\ merged = previous

(* a file merge_results cannot use at all: missing, under the minimum size *)
(* or with a first line that cannot be read                                 *)
Unusable(f) == ~f.exists \/ f.size < MinFileSize \/ f.fails_at = 1

(* a file whose reading raises after the header *)
Truncated(f) == f.exists /\ f.size >= MinFileSize /\ f.fails_at > 1

(* C23: a bad input file never aborts the merge: a missing file, one under  *)
(* 10 bytes or one whose header cannot be read adds no row, one whose rows  *)
(* cannot be read adds no row from the unreadable line on, every later file *)
(* of the list is still merged in full, and the call returns having handled *)
(* every path.                                                              *)
C23_BadFileSkipped ==
  /\ temp_dir # None => merge_pc # "raised"
  /\ merge_pc = "returned" => Len(kept) = Len(merge_input)
  /\ \A i \in DOMAIN kept :
       LET f == merge_input[i]
       IN /\ Unusable(f) => kept[i] = <<>>
          /\ Truncated(f) => Len(kept[i]) <= f.fails_at - 2
          /\ ReadToEnd(f) => kept[i] = MergeRows(Tail(f.lines))
  /\ merge_pc \in {"files", "returned"} => merged = <<Header>> \o Flatten(kept)

C23_Witness ==
  /\ merge_pc = "returned"
  /\ Len(merge_input) = 2
  /\ ~ReadToEnd(merge_input[1])
  /\ ReadToEnd(merge_input[2])
  /\ Len(kept) = 2
  /\ Len(kept[2]) = 2

(* C24 (as claimed): when no task of the run returned an article, process() *)
(* still carries out the merge step without raising, and the Merged Dataset *)
(* it returns holds the header only.                                        *)
C24_EmptyRunMerges ==
  (pc = "returned" /\ ArticleTasks = {} /\ merge_pc \notin {"idle", "start"}) =>
    /\ merge_pc # "raised"
    /\ merged = <<Header>>

(* C25 (as claimed): _save_temp_results never raises: once it was called    *)
(* for a task, it has returned the path of the task's file, which           *)
(* process_parser_result then lists, and a file is at that path.            *)
C25_WriterReturnsPath ==
  \A t \in 1..NumTasks :
    save_calls[t] > 0 =>
      LET filepath == PathJoin(temp_dir, Filename(TaskRange(t), TaskParser(t)))
      IN /\ filepath \in ListedPaths
         /\ \E f \in files : f.path = filepath

(* the work item the catalog's words promise for a row: the company with    *)
(* Jan 1 to Dec 31 of the year 20YY                                         *)
PromisedRange(row) == CompanyDateRange(row[1], IntOf(row[2]))

RECURSIVE RangesOf(_, _)
(* one promised work item, in catalog order, for each row that `chosen`     *)
(* holds of                                                                 *)
RangesOf(rows, chosen) ==
  IF rows = <<>> THEN <<>>
  ELSE (IF chosen[Head(rows)] THEN <<PromisedRange(Head(rows))>> ELSE <<>>)
       \o RangesOf(Tail(rows), chosen)

FlagIsTrue(row) == row[3] = <<"T", "R", "U", "E">>
FlagReadsTrue(row) == \E flag \in {<<"T", "R", "U", "E">>, <<"t", "r", "u", "e">>} : row[3] = flag
AllRows == Companies \X YearSuffixes \X Flags \X SourceLabels

(* C26 (as claimed): read_news_requests yields, in catalog order, one       *)
(* CompanyDateRange (company, Jan 1 to Dec 31 of 20YY) for each row whose   *)
(* has_rating flag is TRUE and whose source label is the news marker, and   *)
(* none for any other row.                                                  *)
C26_FlagTrueRows ==
  read_pc = "returned" =>
    read_results =
      RangesOf(catalog, [row \in AllRows |-> FlagIsTrue(row) /\ row[4] = <<"News">>])

(* C26 (amended): the same for the rows whose flag reads TRUE without       *)
(* regard to letter case and whose source label is the Russian word for     *)
(* news; a row labelled with the English word News yields nothing.          *)
C26_FlagTrueAnyCase ==
  read_pc = "returned" =>
    read_results =
      RangesOf(catalog, [row \in AllRows |-> FlagReadsTrue(row) /\ row[4] = NewsMarker])

C26_Witness ==
  /\ read_pc = "returned"
  /\ Len(catalog) = 2
  /\ catalog[1] = << <<"A", "c", "m", "e">>, <<"2", "3">>, <<"T", "R", "U", "E">>, NewsMarker >>
  /\ catalog[2] = << <<"A", "c", "m", "e">>, <<"2", "4">>, <<"F", "A", "L", "S", "E">>, NewsMarker >>
  /\ read_results = << [company |-> <<"A", "c", "m", "e">>,
                        start_date |-> Date(2023, 1, 1),
                        end_date |-> Date(2023, 12, 31)] >>

NoNbsp(chars) == \A k \in DOMAIN chars : chars[k] # "NBSP"

(* C27: clean_text returns its input with every non-breaking space made a   *)
(* regular space and every other character as it was, the empty string for  *)
(* an empty or absent input, and the same again when applied to its own     *)
(* result; the title and body of a NewsArticle are results of it and hold   *)
(* no non-breaking space.                                                   *)
C27_CleanText ==
  /\ cleaned # <<>> =>
       /\ Len(cleaned[1]) = Len(text_arg.chars)
       /\ \A k \in DOMAIN cleaned[1] :
            cleaned[1][k] = IF text_arg.chars[k] = "NBSP" THEN " "
                            ELSE text_arg.chars[k]
       /\ text_arg.is_none => cleaned[1] = <<>>
  /\ Len(cleaned) = 2 => cleaned[2] = cleaned[1]
  /\ \A i \in DOMAIN news_list :
       /\ NoNbsp(news_list[i].title)
       /\ NoNbsp(news_list[i].body)
       /\ cleaned # <<>> =>
            news_list[i].title = cleaned[1] /\ news_list[i].body = cleaned[1]

C27_Witness ==
  /\ Len(cleaned) = 2
  /\ Len(text_arg.chars) = MaxLen
  /\ \E k \in DOMAIN text_arg.chars : text_arg.chars[k] = "NBSP"
  /\ \E k \in DOMAIN text_arg.chars : text_arg.chars[k] = "a"
  /\ news_list # <<>>

RECURSIVE SeqBag(_)
(* the multiset of the entries of a sequence *)
SeqBag(seq) ==
  IF seq = <<>> THEN EmptyBag ELSE SetToBag({Head(seq)}) (+) SeqBag(Tail(seq))

(* the rows the Writer makes of the articles task t returned *)
TaskRows(t) ==
  LET articles == ReturnedArticles(TaskParser(t), TaskRange(t), fresult[t].articles)
  IN [k \in DOMAIN articles |-> WriterRow(articles[k], TaskRange(t).company)]

RECURSIVE TasksBag(_)
(* the multiset union of the rows of a set of tasks *)
TasksBag(tasks) ==
  IF tasks = {} THEN EmptyBag
  ELSE LET t == CHOOSE x \in tasks : TRUE
       IN SeqBag(TaskRows(t)) (+) TasksBag(tasks \ {t})

(* every call of the Writer in the run returned its path *)
AllWritten == \A t \in ArticleTasks : PathsOf(t) # {}

(* C28 (as claimed): when process() has merged a run in which every         *)
(* Partial Result File was written, the data rows of the Merged Dataset     *)
(* are, as a multiset, the rows of the articles the tasks returned: one     *)
(* row per article and task, none lost, none more often than returned.      *)
C28_MergedIsUnion ==
  (merge_pc = "returned" /\ AllWritten) =>
    SeqBag(Tail(merged)) = TasksBag(ArticleTasks)

(* what parse() holds after a request that met a hard source error: the     *)
(* connection error of the last attempt, a status other than 200, or a 200  *)
(* answer that is empty, no JSON or without a 'found' list                  *)
HardError(r) ==
  \/ r.kind = "raised"
  \/ r.kind = "response" /\ r.status # OkStatus
  \/ r.kind = "response" /\ r.body \in MalformedBodies

(* C29: a hard source error on a page ends the Vedomosti run there: parse() *)
(* asks for no further page and returns the articles of the pages before,   *)
(* and no exception leaves parse().                                         *)
C29_HardErrorEndsRun ==
  /\ [](vpc # "raised")
  /\ [][(vpc = "got" /\ HardError(ret)) =>
          /\ vpc' = "done"
          /\ news_list' = news_list
          /\ requested' = requested]_vars
  /\ [][vpc = "done" => (vpc' = "done" /\ news_list' = news_list)]_vars

C29_Witness ==
  /\ vpc = "done"
  /\ Len(requested) = 2
  /\ Len(results) = 2
  /\ FilledPage(results[1]) /\ results[1].found = MaxFound
  /\ results[2] = Stopped
  /\ ret = Malformed("not_json")
  /\ Len(news_list) = MaxFound

RECURSIVE ProcessedAt(_, _)
(* the positions, in page order, of the items of a page that are processed *)
ProcessedAt(items, k) ==
  IF k > Len(items) THEN <<>>
  ELSE (IF Processed(items[k]) THEN <<k>> ELSE <<>>) \o ProcessedAt(items, k + 1)

RECURSIVE UrlsOfPages(_)
(* the urls, page by page, of the processed items of the first i pages *)
UrlsOfPages(i) ==
  IF i = 0 THEN <<>>
  ELSE UrlsOfPages(i - 1) \o
       (IF results[i].kind = "page"
        THEN LET at == ProcessedAt(results[i].items, 1)
             IN [j \in DOMAIN at |-> <<requested[i], at[j]>>]
        ELSE <<>>)

(* C30: an item of a result page without 'source', without one of the four *)
(* keys, or whose processing raises is skipped alone: the articles          *)
(* collected are those of every other item of every page, in page order,    *)
(* and after a page that listed items the loop goes on with the next        *)
(* offset, whatever the items were.                                         *)
C30_ItemSkippedAlone ==
  /\ [](vpc \in {"loop", "retry", "done"} =>
          [i \in DOMAIN news_list |-> news_list[i].url] = UrlsOfPages(Len(results)))
  /\ [][(vpc = "got" /\ ret.kind = "response" /\ ret.body = "found"
           /\ ret.status = OkStatus /\ ret.found > 0) =>
          /\ vpc' = "loop"
          /\ found_news_on_page'
          /\ current_offset' = current_offset + limit]_vars

C30_Witness ==
  /\ vpc = "retry"
  /\ requested = <<0, limit, 2 * limit>>
  /\ Len(results) = 2
  /\ results[1].kind = "page" /\ results[2].kind = "page"
  /\ Len(results[1].items) = 2 /\ Len(results[2].items) = 2
  /\ results[1].items[1].shape = "no_source"
  /\ results[1].items[2].shape = "full"
  /\ results[2].items[1].shape = "not_text"
  /\ results[2].items[2].shape = "no_key"
  /\ Len(news_list) = 1
  /\ news_list[1].url = <<0, 2>>

RECURSIVE Succeeded(_)
(* the URLs, in the order they were fetched, whose parse_article returned *)
Succeeded(fs) ==
  IF fs = <<>> THEN <<>>
  ELSE (IF Head(fs).outcome = "article" THEN <<Head(fs).url>> ELSE <<>>)
       \o Succeeded(Tail(fs))

(* C31: in BaseParser.parse a detail fetch or extraction that raises for    *)
(* one candidate URL skips only that URL: when parse returns, every URL     *)
(* search_news returned has been fetched, and the result holds exactly the  *)
(* articles of the URLs that did not fail.                                  *)
C31_FailedUrlSkipped ==
  /\ Len(fetched) <= Len(news_urls)
  /\ vpc = "returned" =>
       /\ Len(fetched) = Len(news_urls)
       /\ \A k \in DOMAIN fetched : fetched[k].url = news_urls[k]
  /\ adapter = "Kommersant" =>
       [k \in DOMAIN news_list |-> news_list[k].url] = Succeeded(fetched)

C31_Witness ==
  /\ vpc = "returned"
  /\ Len(fetched) = 2
  /\ fetched[1].outcome = "raise"
  /\ fetched[2].outcome = "article"
  /\ Len(news_list) = 1
  /\ news_list[1].url = news_urls[2]

RECURSIVE LinksSeen(_)
(* every link the search pages of the run showed *)
LinksSeen(rs) ==
  IF rs = <<>> THEN {}
  ELSE (IF Head(rs).kind = "page"
        THEN { Head(rs).links[k] : k \in DOMAIN Head(rs).links }
        ELSE {})
       \cup LinksSeen(Tail(rs))

(* C32: the list search_news returns holds every URL the search pages      *)
(* showed exactly once, however often a page or several pages showed it,   *)
(* and parse fetches no URL twice.                                         *)
C32_EachUrlOnce ==
  (adapter = "Kommersant" /\ vpc \in {"done", "returned"}) =>
    /\ \A i, j \in DOMAIN news_urls : news_urls[i] = news_urls[j] => i = j
    /\ { news_urls[k] : k \in DOMAIN news_urls } = LinksSeen(results)
    /\ \A i, j \in DOMAIN fetched : fetched[i].url = fetched[j].url => i = j

C32_Witness ==
  /\ adapter = "Kommersant"
  /\ vpc = "returned"
  /\ Len(results) = 3
  /\ results[1].links = <<"/doc/1", "/doc/1">>
  /\ results[2].links = <<"/doc/1">>
  /\ Len(fetched) = 1

(* a step in which the adapter sends a request to its search endpoint: one *)
(* requests.get of the Vedomosti retry loop, one page of Forbes or of      *)
(* Kommersant                                                              *)
SendsRequest ==
  \/ calls' = calls + 1
  \/ adapter \in {"Forbes", "Kommersant"} /\ Len(requested') = Len(requested) + 1

(* C33: between two consecutive search requests of an adapter run a pause  *)
(* elapses: a request is sent only when none was sent before it or a       *)
(* time.sleep came after the one before it, whether that one brought a     *)
(* page, a 418, a connection error or, at the end of the retries, None.    *)
C33_RequestsPaced == [][SendsRequest => pace # "request"]_vars

C33_Witness ==
  /\ adapter = "Vedomosti"
  /\ Len(results) = 1
  /\ results[1] = NoPage
  /\ Len(requested) = 2
  /\ calls = 2
  /\ outcomes[1].kind = "exception"
  /\ pace = "slept"

(* C34: every attempt of the retry loop carries a User-Agent chosen for    *)
(* that attempt: as many random.choice calls have been made for a request  *)
(* as requests.get calls.                                                  *)
C34_AgentPerAttempt ==
  (vpc \in {"retry", "got"} /\ calls >= 1) => ua_choices = calls

(* the file the Writer's except branch leaves: the 20 characters of        *)
(* "Error during parsing" on one line                                      *)
Placeholder == File(TRUE, 20, << << <<"Error during parsing">> >> >>, 0)

RECURSIVE RowsOf(_)
(* the rows a list of files gives to the merged file *)
RowsOf(fs) ==
  IF fs = <<>> THEN <<>>
  ELSE MergeRows(ReadableRows(Head(fs))) \o RowsOf(Tail(fs))

RECURSIVE CountOf(_)
(* what a list of files adds to total_articles *)
CountOf(fs) ==
  IF fs = <<>> THEN 0
  ELSE (IF ReadToEnd(Head(fs)) THEN Len(MergeRows(ReadableRows(Head(fs)))) ELSE 0)
       + CountOf(Tail(fs))

(* the files of the list that are not the placeholder *)
OtherFiles == SelectSeq(merge_input, LAMBDA f : f # Placeholder)

(* C35: a file holding the Writer's error placeholder gives no row to the  *)
(* merged file and nothing to the total, and the files listed with it are  *)
(* merged as they would be without it.                                     *)
C35_PlaceholderIgnored ==
  /\ \A i \in DOMAIN kept : merge_input[i] = Placeholder => kept[i] = <<>>
  /\ (merge_pc = "returned" /\ \E i \in DOMAIN merge_input : merge_input[i] = Placeholder) =>
       /\ Len(kept) = Len(merge_input)
       /\ merged = <<Header>> \o RowsOf(OtherFiles)
       /\ total_articles = CountOf(OtherFiles)

C35_Witness ==
  /\ merge_pc = "returned"
  /\ Len(merge_input) = 2
  /\ merge_input[1] = Placeholder
  /\ kept[1] = <<>>
  /\ Len(kept[2]) = 2
  /\ total_articles = 2
  /\ Len(merged) = 3
====
